---- MODULE Spec2Model ----
(***************************************************************************)
(* A model of the legacy transaction message of solana-sdk                 *)
(* (src/message/src/legacy.rs): the message value, its unchecked           *)
(* constructor, sanitize and the account-role queries.                     *)
(*                                                                         *)
(* Indices are 0-based as in the source; TLA+ sequences are 1-based, so    *)
(* the key at source index i is account_keys[i + 1].                       *)
(***************************************************************************)
EXTENDS Integers, Sequences, FiniteSets, TLC

\* ------------------------------------------------------------------ bounds

\* Longest account-key table explored.
MaxKeys == 2

\* Most compiled instructions in a message explored.
MaxIxs == 1

\* Most account indices in one compiled instruction explored.
MaxAccounts == 1

\* Most instructions of a message explored where its programs are looked up
\* or its instructions are compiled.
MaxCalls == 2

\* Longest account-key table explored where only the keys matter.
MaxTableKeys == 4

\* Longest seed explored below the length limit, and most seeds of a list
\* before it is padded with empty seeds.
MaxSeedBytes == 2

MaxSeedCount == 2

\* Most characters of a seed string explored below the length limit.
MaxSeedChars == 11

\* Most leading zero bytes of the patterned addresses that are formatted.
MaxLeadingZeros == 3

\* Threads that call new_unique.
MaxThreads == 2

\* Calls of new_unique whose result is kept.
MaxUniqueCalls == 4

\* Most hard forks given to compute_shred_version.
MaxHardForks == 1

\* ------------------------------------------------------- program constants

\* u8::MAX: header counts and compiled indices are u8.
U8Max == 255

\* solana_sdk_ids::bpf_loader_upgradeable::id()
bpf_loader_upgradeable_id == "BPFLoaderUpgradeab1e11111111111111111111111"

\* Pubkey::default(): the all-zero address.
PubkeyDefault == "11111111111111111111111111111111"

\* ------------------------------------------------------------------ values

\* Option<T>: None is the empty sequence, Some(x) the one-element sequence.
None == <<>>

Some(x) == <<x>>

\* The addresses explored: the default one, an ordinary one and the loader id.
Pubkeys == {PubkeyDefault, "Key1", bpf_loader_upgradeable_id}

\* The u8 values explored: the small ones and the largest.
U8Vals == (0..MaxKeys) \cup {U8Max}

\* The usize indices handed to the role queries: inside the table, just past
\* it, the largest u8 and the first value that does not fit a u8.
Indices == (0..MaxKeys) \cup {U8Max, U8Max + 1}

\* Sequences over S of length at most n.
SeqUpTo(S, n) == UNION {[1..k -> S] : k \in 0..n}

\* Hash values explored (recent_blockhash); 0 is Hash::default().
Hashes == {0, 1}

MessageHeaders ==
    [num_required_signatures : U8Vals,
     num_readonly_signed_accounts : U8Vals,
     num_readonly_unsigned_accounts : U8Vals]

CompiledInstructions ==
    [program_id_index : U8Vals, accounts : SeqUpTo(U8Vals, MaxAccounts)]

\* Option<&HashSet<Pubkey>> arguments explored: for every address a set
\* that holds it and one that does not.
ReservedOptions ==
    {None, Some({"Key1"}), Some({PubkeyDefault, bpf_loader_upgradeable_id})}

\* ------------------------------------------------------------------- state

\* Opaque instruction data.
InstructionData == {<<>>, <<1>>}

\* solana_instruction::AccountMeta
AccountMetas == [pubkey : Pubkeys, is_signer : BOOLEAN, is_writable : BOOLEAN]

\* solana_instruction::Instruction, up to MaxAccounts accounts each.
Instructions ==
    [program_id : Pubkeys,
     accounts : SeqUpTo(AccountMetas, MaxAccounts),
     data : InstructionData]

\* The payer argument of the constructors.
Payers == {None} \cup {Some(p) : p \in Pubkeys}

\* Maximum length of a derived-address seed, maximum number of seeds, and the
\* number of bytes of a Pubkey.
MAX_SEED_LEN == 32

MAX_SEEDS == 16

PUBKEY_BYTES == 32

\* b"ProgramDerivedAddress"
PDA_MARKER ==
    <<80, 114, 111, 103, 114, 97, 109, 68, 101, 114, 105, 118, 101, 100,
      65, 100, 100, 114, 101, 115, 115>>

\* n times the value v.
Fill(n, v) == [i \in 1..n |-> v]

\* Bytes seeds are made of.
SeedBytes == {97, 98}

\* Seeds explored: the short ones, one of exactly MAX_SEED_LEN bytes and one
\* a byte longer.
Seeds ==
    SeqUpTo(SeedBytes, MaxSeedBytes)
       \cup {Fill(MAX_SEED_LEN, 97), Fill(MAX_SEED_LEN + 1, 97)}

\* Numbers of empty seeds appended to reach the seed-count limit.
Paddings == {0, MAX_SEEDS - 2, MAX_SEEDS - 1, MAX_SEEDS}

\* Seed lists explored.
SeedLists ==
    {prefix \o Fill(padding, <<>>) :
        prefix \in SeqUpTo(Seeds, MaxSeedCount), padding \in Paddings}

\* Program ids explored, as their bytes.
ProgramIds == {Fill(PUBKEY_BYTES, 0), Fill(PUBKEY_BYTES, 1)}

\* Bump seeds whose candidate address a curve explored may leave off it.
BumpSamples == {0, 1, U8Max - 1, U8Max}

\* Characters, each as its UTF-8 bytes: "a", the sun sign of
\* test_create_with_seed and U+10FFFF. A string is a sequence of characters.
SeedChars == {<<97>>, <<226, 152, 137>>, <<244, 143, 191, 191>>}

\* Seed strings explored: one character repeated.
SeedStrings ==
    {Fill(n, ch) :
        n \in (0..MaxSeedChars) \cup {MAX_SEED_LEN, MAX_SEED_LEN + 1},
        ch \in SeedChars}

\* The bytes of PDA_MARKER but the first.
MarkerTail == SubSeq(PDA_MARKER, 2, Len(PDA_MARKER))

\* Owners explored: one that has nothing of the marker, one that ends with
\* it, one that ends with its last 20 bytes and one that starts with it.
Owners ==
    {Fill(PUBKEY_BYTES, 0),
     Fill(PUBKEY_BYTES - Len(PDA_MARKER), 0) \o PDA_MARKER,
     Fill(PUBKEY_BYTES - Len(MarkerTail), 0) \o MarkerTail,
     PDA_MARKER \o Fill(PUBKEY_BYTES - Len(PDA_MARKER), 0)}

\* Maximum string length of a base58 encoded pubkey.
MAX_BASE58_LEN == 44

\* The base58 alphabet, as ASCII codes: the digits and letters without
\* "0", "I", "O" and "l".
Base58Alphabet ==
    <<49, 50, 51, 52, 53, 54, 55, 56, 57,
      65, 66, 67, 68, 69, 70, 71, 72, 74, 75, 76, 77, 78,
      80, 81, 82, 83, 84, 85, 86, 87, 88, 89, 90,
      97, 98, 99, 100, 101, 102, 103, 104, 105, 106, 107,
      109, 110, 111, 112, 113, 114, 115, 116, 117, 118, 119, 120, 121, 122>>

\* The string of the characters of the given ASCII codes.
Ascii(codes) == [k \in 1..Len(codes) |-> <<codes[k]>>]

\* Addresses that are formatted: the default address and patterns with up
\* to MaxLeadingZeros zero bytes in front, up to [255; 32], the address of
\* the longest text.
Addresses ==
    {Fill(PUBKEY_BYTES, 0)}
       \cup {Fill(z, 0) \o Fill(PUBKEY_BYTES - z, b) :
                z \in 0..MaxLeadingZeros, b \in {1, 88, U8Max}}

\* size_of::<u32>(): the bytes of the counter written into an address.
COUNTER_BYTES == 4

\* size_of::<u64>(): the bytes of the static counter.
U64_BYTES == 8

Threads == 1..MaxThreads

\* u16::MAX: a shred version is a u16.
U16Max == 65535

\* Hashes a shred version is computed from: two bytes in front of 30 equal
\* ones; Hash::default() is all zero.
ShredHashes ==
    {<<a, b>> \o Fill(PUBKEY_BYTES - 2, c) :
        a \in {0, 1, U8Max}, b \in {0, 1, U8Max - 1, U8Max}, c \in {0, 1, U8Max}}

\* hard_forks.iter(): (slot, count) pairs; a slot registered once or twice.
HardForks == SeqUpTo({<<1, 1>>, <<1, 2>>}, MaxHardForks)

\* The digests hashv gives when a hard fork is hashed in.
ShredDigests == {Fill(PUBKEY_BYTES, 0), <<U8Max, U8Max - 1>> \o Fill(PUBKEY_BYTES - 2, 0)}

VARIABLES
    header,            \* Message.header
    account_keys,      \* Message.account_keys
    recent_blockhash,  \* Message.recent_blockhash
    instructions,      \* Message.instructions
    call,              \* the last operation applied: [op, args]
    ret,               \* what it returned
    pc,                \* where a search for a program address stands
    bump_seed,         \* bump_seed[0] of the search
    attempts,          \* candidate addresses the search has derived
    I,                 \* the static counter of new_unique, big-endian bytes
    threads,           \* where each thread stands in new_unique
    log                \* the calls of new_unique and what they returned

vars ==
    <<header, account_keys, recent_blockhash, instructions, call, ret,
      pc, bump_seed, attempts, I, threads, log>>

finder == <<pc, bump_seed, attempts>>

unique == <<I, threads, log>>

msg == <<header, account_keys, recent_blockhash, instructions>>

\* ------------------------------------------------- Message: pure functions

\* Mutant: the subtraction wraps at the width of the header counts.
wrapping_sub(a, b) == (a - b) % (U8Max + 1)

\* usize::saturating_sub
saturating_sub(a, b) == IF a >= b THEN a - b ELSE 0

\* u8::try_from(usize).is_ok()
u8_try_from_ok(i) == i <= U8Max

\* Mutant: the header sum is taken in u8 and wraps.
sanitize_wrapping_sum ==
    IF (header.num_required_signatures + header.num_readonly_unsigned_accounts)
          % (U8Max + 1) > Len(account_keys)
    THEN "IndexOutOfBounds"
    ELSE IF header.num_readonly_signed_accounts >= header.num_required_signatures
    THEN "IndexOutOfBounds"
    ELSE IF \E k \in 1..Len(instructions) :
               \/ instructions[k].program_id_index >= Len(account_keys)
               \/ instructions[k].program_id_index = 0
               \/ \E j \in 1..Len(instructions[k].accounts) :
                     instructions[k].accounts[j] >= Len(account_keys)
    THEN "IndexOutOfBounds"
    ELSE "Ok"

\* Mutant: the program index is not compared with the payer's index 0.
sanitize_no_payer_check ==
    IF header.num_required_signatures + header.num_readonly_unsigned_accounts
          > Len(account_keys)
    THEN "IndexOutOfBounds"
    ELSE IF header.num_readonly_signed_accounts >= header.num_required_signatures
    THEN "IndexOutOfBounds"
    ELSE IF \E k \in 1..Len(instructions) :
               \/ instructions[k].program_id_index >= Len(account_keys)
               \/ \E j \in 1..Len(instructions[k].accounts) :
                     instructions[k].accounts[j] >= Len(account_keys)
    THEN "IndexOutOfBounds"
    ELSE "Ok"

\* Mutant: the signing and read-only areas may not even touch (>= for >).
sanitize_strict_overlap ==
    IF header.num_required_signatures + header.num_readonly_unsigned_accounts
          >= Len(account_keys)
    THEN "IndexOutOfBounds"
    ELSE IF header.num_readonly_signed_accounts >= header.num_required_signatures
    THEN "IndexOutOfBounds"
    ELSE IF \E k \in 1..Len(instructions) :
               \/ instructions[k].program_id_index >= Len(account_keys)
               \/ instructions[k].program_id_index = 0
               \/ \E j \in 1..Len(instructions[k].accounts) :
                     instructions[k].accounts[j] >= Len(account_keys)
    THEN "IndexOutOfBounds"
    ELSE "Ok"

\* Mutant: as many read-only signers as signers are let through (> for >=).
sanitize_readonly_payer ==
    IF header.num_required_signatures + header.num_readonly_unsigned_accounts
          > Len(account_keys)
    THEN "IndexOutOfBounds"
    ELSE IF header.num_readonly_signed_accounts > header.num_required_signatures
    THEN "IndexOutOfBounds"
    ELSE IF \E k \in 1..Len(instructions) :
               \/ instructions[k].program_id_index >= Len(account_keys)
               \/ instructions[k].program_id_index = 0
               \/ \E j \in 1..Len(instructions[k].accounts) :
                     instructions[k].accounts[j] >= Len(account_keys)
    THEN "IndexOutOfBounds"
    ELSE "Ok"

\* <Message as Sanitize>::sanitize
sanitize ==
    IF header.num_required_signatures + header.num_readonly_unsigned_accounts
          > Len(account_keys)
    THEN "IndexOutOfBounds"
    ELSE IF header.num_readonly_signed_accounts >= header.num_required_signatures
    THEN "IndexOutOfBounds"
    ELSE IF \E k \in 1..Len(instructions) :
               \/ instructions[k].program_id_index >= Len(account_keys)
               \/ instructions[k].program_id_index = 0
               \/ \E j \in 1..Len(instructions[k].accounts) :
                     instructions[k].accounts[j] >= Len(account_keys)
    THEN "IndexOutOfBounds"
    ELSE "Ok"

\* Message::is_instruction_account
is_instruction_account(key_index) ==
    IF u8_try_from_ok(key_index)
    THEN \E k \in 1..Len(instructions) :
            \E j \in 1..Len(instructions[k].accounts) :
               instructions[k].accounts[j] = key_index
    ELSE FALSE

\* Message::is_key_called_as_program
is_key_called_as_program(key_index) ==
    IF u8_try_from_ok(key_index)
    THEN \E k \in 1..Len(instructions) :
            instructions[k].program_id_index = key_index
    ELSE FALSE

\* Mutant: only the invoked program ids are compared with the loader id.
is_upgradeable_loader_invoked ==
    \E k \in 1..Len(instructions) :
       /\ instructions[k].program_id_index < Len(account_keys)
       /\ account_keys[instructions[k].program_id_index + 1]
             = bpf_loader_upgradeable_id

\* Message::is_upgradeable_loader_present
is_upgradeable_loader_present ==
    \E k \in 1..Len(account_keys) : account_keys[k] = bpf_loader_upgradeable_id

\* Message::demote_program_id
demote_program_id(i) ==
    is_key_called_as_program(i) /\ ~is_upgradeable_loader_present

\* Mutant: the non-signer range starts one index late (> for >=).
is_writable_index_late_unsigned(i) ==
    \/ i < saturating_sub(header.num_required_signatures,
                          header.num_readonly_signed_accounts)
    \/ /\ i > header.num_required_signatures
       /\ i < saturating_sub(Len(account_keys),
                             header.num_readonly_unsigned_accounts)

\* Mutant: the read-only signers are not taken off the signer range.
is_writable_index_all_signers(i) ==
    \/ i < header.num_required_signatures
    \/ /\ i >= header.num_required_signatures
       /\ i < saturating_sub(Len(account_keys),
                             header.num_readonly_unsigned_accounts)

\* Message::is_writable_index
is_writable_index(i) ==
    \/ i < saturating_sub(header.num_required_signatures,
                          header.num_readonly_signed_accounts)
    \/ /\ i >= header.num_required_signatures
       /\ i < saturating_sub(Len(account_keys),
                             header.num_readonly_unsigned_accounts)

\* <[T]>::get: Some(element) inside the slice, None outside it.
get(s, index) == IF index < Len(s) THEN Some(s[index + 1]) ELSE None

\* Message::is_account_maybe_reserved
is_account_maybe_reserved(key_index, reserved_account_keys) ==
    IF reserved_account_keys # None
    THEN LET key == get(account_keys, key_index)
         IN  IF key # None
             THEN key[1] \in reserved_account_keys[1]
             ELSE FALSE
    ELSE FALSE

\* Mutant: a program that is called keeps its writability.
is_maybe_writable_no_demotion(i, reserved_account_keys) ==
    /\ is_writable_index(i)
    /\ ~is_account_maybe_reserved(i, reserved_account_keys)

\* Message::is_maybe_writable
is_maybe_writable(i, reserved_account_keys) ==
    /\ is_writable_index(i)
    /\ ~is_account_maybe_reserved(i, reserved_account_keys)
    /\ ~demote_program_id(i)

\* Mutant: the index just past the signers counts as a signer (<= for <).
is_signer_inclusive(i) == i <= header.num_required_signatures

\* Message::is_signer
is_signer(i) == i < header.num_required_signatures

\* usize::min
min(a, b) == IF a <= b THEN a ELSE b

\* A call that panicked returns nothing; one that returned v returns <<v>>.
Panic == <<>>

Returned(v) == <<v>>

\* &s[..end]: the prefix of length end; panics when end > s.len().
slice_to(s, end) ==
    IF end <= Len(s) THEN Returned(SubSeq(s, 1, end)) ELSE Panic

\* Mutant: the prefix length is not clamped to the table's length.
signer_keys_unclamped ==
    slice_to(account_keys, header.num_required_signatures)

\* Message::signer_keys
signer_keys ==
    LET last_key == min(Len(account_keys), header.num_required_signatures)
    IN  slice_to(account_keys, last_key)

\* <[T]>::contains
contains(s, x) == \E k \in 1..Len(s) : s[k] = x

\* &s[start..]: the suffix from source index start on (start <= s.len()).
slice_from(s, start) == SubSeq(s, start + 1, Len(s))

\* Mutant: a key is only compared with the key right after it.
has_duplicates_adjacent ==
    \E i \in 1..(Len(account_keys) - 1) :
       account_keys[i + 1] = account_keys[(i - 1) + 1]

\* Message::has_duplicates: for i in 1..len, is account_keys[i - 1] among
\* account_keys[i..]; the first hit returns true.
has_duplicates ==
    \E i \in 1..(Len(account_keys) - 1) :
       contains(slice_from(account_keys, i), account_keys[(i - 1) + 1])

\* Message::program_ids: account_keys[ix.program_id_index] of every
\* instruction, in order; indexing past the table panics.
program_ids ==
    IF \E k \in 1..Len(instructions) :
          instructions[k].program_id_index >= Len(account_keys)
    THEN Panic
    ELSE Returned([k \in 1..Len(instructions) |->
                     account_keys[instructions[k].program_id_index + 1]])

\* Iterator::position with an equality test: the source index of the first
\* element equal to x.
iter_position(s, x) ==
    IF \E k \in 1..Len(s) : s[k] = x
    THEN Some((CHOOSE k \in 1..Len(s) :
                  s[k] = x /\ \A j \in 1..(k - 1) : s[j] # x) - 1)
    ELSE None

\* Mutant: an instruction matches when its program_id_index is the index.
program_position_by_index(index) ==
    IF program_ids = Panic
    THEN Panic
    ELSE Returned(iter_position([k \in 1..Len(instructions) |->
                                    instructions[k].program_id_index],
                                 index))

\* Message::program_position: the first program id equal to
\* account_keys[index]; the closure indexes the table once per program id it
\* looks at, so an index past the table panics unless there is no program id.
program_position(index) ==
    IF program_ids = Panic
    THEN Panic
    ELSE IF Len(program_ids[1]) > 0 /\ index >= Len(account_keys)
    THEN Panic
    ELSE Returned(iter_position(program_ids[1], account_keys[index + 1]))

\* Option::is_some
is_some(o) == o # None

\* Mutant: the key is reported when no program id equals it (is_none).
maybe_executable_is_none(i) ==
    IF program_position(i) = Panic
    THEN Panic
    ELSE Returned(~is_some(program_position(i)[1]))

\* Message::maybe_executable
maybe_executable(i) ==
    IF program_position(i) = Panic
    THEN Panic
    ELSE Returned(is_some(program_position(i)[1]))

\* Mutant: the position counted from one.
position_from_one(keys, key) ==
    LET found == iter_position(keys, key)
    IN  IF found = None
        THEN Panic
        ELSE Returned((found[1] + 1) % (U8Max + 1))

\* position: the first source index of key in keys, cast to u8; unwrap panics
\* when the key is absent.
position(keys, key) ==
    LET found == iter_position(keys, key)
    IN  IF found = None
        THEN Panic
        ELSE Returned(found[1] % (U8Max + 1))

\* compile_instruction: program id and account addresses become positions in
\* keys, the data is cloned.
compile_instruction(ix, keys) ==
    LET accounts == [j \in 1..Len(ix.accounts) |->
                       position(keys, ix.accounts[j].pubkey)]
        program_id_index == position(keys, ix.program_id)
    IN  IF \/ program_id_index = Panic
           \/ \E j \in 1..Len(accounts) : accounts[j] = Panic
        THEN Panic
        ELSE Returned(
               [program_id_index |-> program_id_index[1],
                data |-> ix.data,
                accounts |-> [j \in 1..Len(accounts) |-> accounts[j][1]]])

\* compile_instructions
compile_instructions(ixs, keys) ==
    LET compiled == [k \in 1..Len(ixs) |-> compile_instruction(ixs[k], keys)]
    IN  IF \E k \in 1..Len(compiled) : compiled[k] = Panic
        THEN Panic
        ELSE Returned([k \in 1..Len(compiled) |-> compiled[k][1]])

\* The addresses an instruction list names as program or as account.
NamedKeys(ixs) ==
    {ixs[k].program_id : k \in 1..Len(ixs)}
       \cup UNION {{ixs[k].accounts[j].pubkey : j \in 1..Len(ixs[k].accounts)} :
                     k \in 1..Len(ixs)}

\* Some account entry of the instructions holds address a with the flag
\* ("is_signer" or "is_writable") set.
NamedWith(ixs, a, flag) ==
    \E k \in 1..Len(ixs) : \E j \in 1..Len(ixs[k].accounts) :
       ixs[k].accounts[j].pubkey = a /\ ixs[k].accounts[j][flag]

\* CompiledKeys::compile (the Account-Key Compiler): every address named by
\* the instructions or given as payer, with its roles; the payer signs and is
\* writable.
compile(ixs, payer) ==
    [payer |-> payer,
     key_meta_map |->
        [a \in NamedKeys(ixs) \cup {payer[i] : i \in 1..Len(payer)} |->
           [is_signer |-> \/ payer = Some(a)
                          \/ NamedWith(ixs, a, "is_signer"),
            is_writable |-> \/ payer = Some(a)
                            \/ NamedWith(ixs, a, "is_writable")]]]

\* The keys of a compiled key set that sign (or not) and are writable (or
\* not), the payer apart.
KeyClass(compiled_keys, signer, writable) ==
    {a \in DOMAIN compiled_keys.key_meta_map :
        /\ compiled_keys.payer # Some(a)
        /\ compiled_keys.key_meta_map[a].is_signer = signer
        /\ compiled_keys.key_meta_map[a].is_writable = writable}

\* The orders in which the elements of S can be laid out.
Orderings(S) ==
    {f \in [1..Cardinality(S) -> S] : \A a \in S : \E i \in DOMAIN f : f[i] = a}

\* Mutant: the payer is counted with the readonly signers.
try_into_message_components_readonly_payer(compiled_keys) ==
    LET payer == compiled_keys.payer
        ws == KeyClass(compiled_keys, TRUE, TRUE)
        rs == KeyClass(compiled_keys, TRUE, FALSE)
        w  == KeyClass(compiled_keys, FALSE, TRUE)
        r  == KeyClass(compiled_keys, FALSE, FALSE)
        signers == Len(payer) + Cardinality(ws) + Cardinality(rs)
    IN  IF signers > U8Max \/ Cardinality(r) > U8Max
        THEN None
        ELSE Some({[header |->
                      [num_required_signatures |-> signers,
                       num_readonly_signed_accounts |->
                          Len(payer) + Cardinality(rs),
                       num_readonly_unsigned_accounts |-> Cardinality(r)],
                    account_keys |-> payer \o o1 \o o2 \o o3 \o o4] :
                   o1 \in Orderings(ws), o2 \in Orderings(rs),
                   o3 \in Orderings(w), o4 \in Orderings(r)})

\* CompiledKeys::try_into_message_components: the header and key tables the
\* contract allows: payer first, then the writable signers, the readonly
\* signers, the writable non-signers and the readonly non-signers, every
\* address once; the order inside a class is left to the compiler. None when
\* a count does not fit 8 bits.
try_into_message_components(compiled_keys) ==
    LET payer == compiled_keys.payer
        ws == KeyClass(compiled_keys, TRUE, TRUE)
        rs == KeyClass(compiled_keys, TRUE, FALSE)
        w  == KeyClass(compiled_keys, FALSE, TRUE)
        r  == KeyClass(compiled_keys, FALSE, FALSE)
        signers == Len(payer) + Cardinality(ws) + Cardinality(rs)
    IN  IF signers > U8Max \/ Cardinality(r) > U8Max
        THEN None
        ELSE Some({[header |->
                      [num_required_signatures |-> signers,
                       num_readonly_signed_accounts |-> Cardinality(rs),
                       num_readonly_unsigned_accounts |-> Cardinality(r)],
                    account_keys |-> payer \o o1 \o o2 \o o3 \o o4] :
                   o1 \in Orderings(ws), o2 \in Orderings(rs),
                   o3 \in Orderings(w), o4 \in Orderings(r)})

\* Mutant: the two signer counts of the header change places.
new_with_blockhash_swapped_counts(instructions_, components, blockhash) ==
    LET compiled == compile_instructions(instructions_, components.account_keys)
    IN  IF compiled = Panic
        THEN Panic
        ELSE Returned(
               [header |->
                  [num_required_signatures |->
                     components.header.num_readonly_signed_accounts,
                   num_readonly_signed_accounts |->
                     components.header.num_required_signatures,
                   num_readonly_unsigned_accounts |->
                     components.header.num_readonly_unsigned_accounts],
                account_keys |-> components.account_keys,
                recent_blockhash |-> blockhash,
                instructions |-> compiled[1]])

\* Message::new_with_blockhash, from the components the key compiler gave:
\* the instructions are compiled against the key table and the message is
\* assembled by new_with_compiled_instructions.
new_with_blockhash(instructions_, components, blockhash) ==
    LET compiled == compile_instructions(instructions_, components.account_keys)
    IN  IF compiled = Panic
        THEN Panic
        ELSE Returned(
               [header |->
                  [num_required_signatures |->
                     components.header.num_required_signatures,
                   num_readonly_signed_accounts |->
                     components.header.num_readonly_signed_accounts,
                   num_readonly_unsigned_accounts |->
                     components.header.num_readonly_unsigned_accounts],
                account_keys |-> components.account_keys,
                recent_blockhash |-> blockhash,
                instructions |-> compiled[1]])

\* A call that has not returned yet.
Running == <<"running", "call">>

\* Result::Ok, Result::Err
Ok(v) == <<"Ok", v>>

Err(e) == <<"Err", e>>

\* solana_sha256_hasher::Hasher: the state is the bytes absorbed so far.
HasherDefault == <<>>

\* Hasher::hash absorbs the bytes of val behind those already absorbed.
hasher_hash(hasher, val) == hasher \o val

\* Hasher::hashv absorbs every value of vals in order.
RECURSIVE hasher_hashv(_, _)
hasher_hashv(hasher, vals) ==
    IF vals = <<>>
    THEN hasher
    ELSE hasher_hashv(hasher_hash(hasher, Head(vals)), Tail(vals))

\* Hasher::result: the SHA-256 digest, written as the digest of the bytes
\* absorbed; different byte strings have different digests.
hasher_result(hasher) == [sha256 |-> hasher]

\* Mutant: every seed is absorbed behind its length.
RECURSIVE hash_seeds_framed(_, _)
hash_seeds_framed(hasher, seeds) ==
    IF seeds = <<>>
    THEN hasher
    ELSE hash_seeds_framed(
            hasher_hash(hasher_hash(hasher, <<Len(Head(seeds))>>), Head(seeds)),
            Tail(seeds))

\* for seed in seeds.iter() { hasher.hash(seed) }
RECURSIVE hash_seeds(_, _)
hash_seeds(hasher, seeds) ==
    IF seeds = <<>>
    THEN hasher
    ELSE hash_seeds(hasher_hash(hasher, Head(seeds)), Tail(seeds))

\* bytes_are_curve_point: whether the 32 bytes decompress to a point of the
\* curve. The curve is given as the digests listed in curve.except and what
\* holds of all the others, curve.rest.
bytes_are_curve_point(curve, bytes) ==
    IF bytes \in curve.except THEN ~curve.rest ELSE curve.rest

\* Pubkey::is_on_curve
is_on_curve(curve, pubkey) == bytes_are_curve_point(curve, pubkey)

\* Mutant: a seed of exactly MAX_SEED_LEN bytes is refused.
create_program_address_short_seeds(curve, seeds, program_id) ==
    IF Len(seeds) > MAX_SEEDS
    THEN Err("MaxSeedLengthExceeded")
    ELSE IF \E i \in 1..Len(seeds) : Len(seeds[i]) >= MAX_SEED_LEN
    THEN Err("MaxSeedLengthExceeded")
    ELSE LET hash == hasher_result(
                        hasher_hashv(hash_seeds(HasherDefault, seeds),
                                     <<program_id, PDA_MARKER>>))
         IN  IF bytes_are_curve_point(curve, hash)
             THEN Err("InvalidSeeds")
             ELSE Ok(hash)

\* Mutant: the marker is left out of the hash.
create_program_address_no_marker(curve, seeds, program_id) ==
    IF Len(seeds) > MAX_SEEDS
    THEN Err("MaxSeedLengthExceeded")
    ELSE IF \E i \in 1..Len(seeds) : Len(seeds[i]) > MAX_SEED_LEN
    THEN Err("MaxSeedLengthExceeded")
    ELSE LET hash == hasher_result(
                        hasher_hashv(hash_seeds(HasherDefault, seeds),
                                     <<program_id>>))
         IN  IF bytes_are_curve_point(curve, hash)
             THEN Err("InvalidSeeds")
             ELSE Ok(hash)

\* Mutant: a list of exactly MAX_SEEDS seeds is refused.
create_program_address_fewer_seeds(curve, seeds, program_id) ==
    IF Len(seeds) >= MAX_SEEDS
    THEN Err("MaxSeedLengthExceeded")
    ELSE IF \E i \in 1..Len(seeds) : Len(seeds[i]) > MAX_SEED_LEN
    THEN Err("MaxSeedLengthExceeded")
    ELSE LET hash == hasher_result(
                        hasher_hashv(hash_seeds(HasherDefault, seeds),
                                     <<program_id, PDA_MARKER>>))
         IN  IF bytes_are_curve_point(curve, hash)
             THEN Err("InvalidSeeds")
             ELSE Ok(hash)

\* Pubkey::create_program_address
create_program_address(curve, seeds, program_id) ==
    IF Len(seeds) > MAX_SEEDS
    THEN Err("MaxSeedLengthExceeded")
    ELSE IF \E i \in 1..Len(seeds) : Len(seeds[i]) > MAX_SEED_LEN
    THEN Err("MaxSeedLengthExceeded")
    ELSE LET hash == hasher_result(
                        hasher_hashv(hash_seeds(HasherDefault, seeds),
                                     <<program_id, PDA_MARKER>>))
         IN  IF bytes_are_curve_point(curve, hash)
             THEN Err("InvalidSeeds")
             ELSE Ok(hash)

\* Mutant: the bump seed is put in front of the seeds.
seeds_with_bump_in_front(seeds, bump) == <<<<bump>>>> \o seeds

\* seeds_with_bump: seeds.to_vec() with &bump_seed pushed.
seeds_with_bump(seeds, bump) == seeds \o <<<<bump>>>>

\* Mutant: every error moves the search on.
keeps_searching_on_error(address) == address[1] = "Err"

\* The match arm Err(PubkeyError::InvalidSeeds) => (): the search goes on.
keeps_searching(address) == address = Err("InvalidSeeds")

\* Mutant: two are taken off the bump seed.
decremented_by_two(b) ==
    IF b > 1 THEN {Returned(b - 2)} ELSE {Returned(U8Max), Panic}

\* bump_seed[0] -= 1: what the subtraction can leave; below zero the build
\* either panics or wraps.
decremented(b) ==
    IF b > 0 THEN {Returned(b - 1)} ELSE {Returned(U8Max), Panic}

\* The curves explored for a call with these seeds: which of the sampled
\* bump seeds give a candidate listed in except, and either value of rest.
Curves(seeds, program_id) ==
    {[rest |-> rest,
      except |-> {hasher_result(
                     hasher_hashv(hash_seeds(HasherDefault,
                                             seeds \o <<<<bump>>>>),
                                  <<program_id, PDA_MARKER>>)) :
                  bump \in bumps}] :
       rest \in BOOLEAN, bumps \in SUBSET BumpSamples}

\* str::as_bytes (AsRef<[u8]> for str): the UTF-8 bytes of the characters.
RECURSIVE as_bytes(_)
as_bytes(s) == IF s = <<>> THEN <<>> ELSE Head(s) \o as_bytes(Tail(s))

\* str::len: the length in bytes.
str_len(s) == Len(as_bytes(s))

\* Mutant: the seed is measured in characters.
create_with_seed_by_chars(base, seed, owner) ==
    IF Len(seed) > MAX_SEED_LEN
    THEN Err("MaxSeedLengthExceeded")
    ELSE IF /\ Len(owner) >= Len(PDA_MARKER)
            /\ SubSeq(owner, Len(owner) - Len(PDA_MARKER) + 1, Len(owner))
                  = PDA_MARKER
    THEN Err("IllegalOwner")
    ELSE Ok(hasher_result(hasher_hashv(HasherDefault,
                                       <<base, as_bytes(seed), owner>>)))

\* Pubkey::create_with_seed
create_with_seed(base, seed, owner) ==
    IF str_len(seed) > MAX_SEED_LEN
    THEN Err("MaxSeedLengthExceeded")
    ELSE IF /\ Len(owner) >= Len(PDA_MARKER)
            /\ SubSeq(owner, Len(owner) - Len(PDA_MARKER) + 1, Len(owner))
                  = PDA_MARKER
    THEN Err("IllegalOwner")
    ELSE Ok(hasher_result(hasher_hashv(HasherDefault,
                                       <<base, as_bytes(seed), owner>>)))

\* The digits of a number without its leading zero digits.
RECURSIVE strip_zeros(_)
strip_zeros(n) ==
    IF n # <<>> /\ Head(n) = 0 THEN strip_zeros(Tail(n)) ELSE n

\* The number of leading elements of s that are v.
RECURSIVE leading(_, _, _)
leading(s, v, count) ==
    IF s # <<>> /\ Head(s) = v THEN leading(Tail(s), v, count + 1) ELSE count

\* Long division of the number with the big-endian digits n in base from
\* by the small number by: <<quotient digits, remainder>>.
RECURSIVE long_div(_, _, _, _, _)
long_div(n, from, by, carry, quot) ==
    IF n = <<>>
    THEN <<quot, carry>>
    ELSE long_div(Tail(n), from, by, (carry * from + Head(n)) % by,
                  Append(quot, (carry * from + Head(n)) \div by))

\* The big-endian digits in base to of the number with the big-endian
\* digits n in base from, in front of the digits out.
RECURSIVE convert(_, _, _, _)
convert_step(divided, from, to, out) ==
    convert(strip_zeros(divided[1]), from, to, <<divided[2]>> \o out)

convert(n, from, to, out) ==
    IF n = <<>>
    THEN out
    ELSE convert_step(long_div(n, from, to, 0, <<>>), from, to, out)

\* The place of an ASCII code in the alphabet, from 0.
base58_digit(c) == (CHOOSE k \in 1..Len(Base58Alphabet) : Base58Alphabet[k] = c) - 1

\* The ASCII codes of base58 digits.
base58_chars(digits) ==
    [k \in 1..Len(digits) |-> Base58Alphabet[digits[k] + 1]]

\* five8::encode_32: a "1" for each leading zero byte, then the base58
\* digits of the rest.
encode_32(bytes) ==
    Fill(leading(bytes, 0, 0), Base58Alphabet[1])
       \o base58_chars(convert(strip_zeros(bytes), 256, 58, <<>>))

\* The bytes a text of base58 digits stands for: a zero byte for each
\* leading "1", then the bytes of the rest.
base58_bytes(digits) ==
    Fill(leading(digits, 0, 0), 0)
       \o convert(strip_zeros(digits), 58, 256, <<>>)

\* The outcome of decoding for the bytes a text stands for.
decoded_32(out) ==
    IF Len(out) < PUBKEY_BYTES
    THEN Err("TooShort")
    ELSE IF Len(out) > PUBKEY_BYTES
    THEN Err("OutputTooLong")
    ELSE Ok(out)

\* five8::decode_32
decode_32(encoded) ==
    IF \E k \in 1..Len(encoded) :
          \A d \in 1..Len(Base58Alphabet) : Base58Alphabet[d] # encoded[k]
    THEN Err("InvalidChar")
    ELSE IF Len(encoded) > MAX_BASE58_LEN
    THEN Err("TooLong")
    ELSE decoded_32(base58_bytes([k \in 1..Len(encoded) |->
                                     base58_digit(encoded[k])]))

\* Mutant: the leading zero bytes are left out of the text.
write_as_base58_unpadded(p) ==
    Ascii(encode_32(strip_zeros(p)))

\* write_as_base58 (Display and Debug of Pubkey)
write_as_base58(p) ==
    Ascii(encode_32(p))

\* The map_err of from_str: the parse error of a decode error.
parse_error(e) ==
    IF e = "InvalidChar" THEN "Invalid" ELSE "WrongSize"

\* Mutant: the text is decoded whatever its length.
from_str_decodes_first(s) ==
    IF decode_32(as_bytes(s))[1] = "Err"
    THEN Err(parse_error(decode_32(as_bytes(s))[2]))
    ELSE Ok(decode_32(as_bytes(s))[2])

\* Pubkey::from_str
from_str(s) ==
    IF str_len(s) > MAX_BASE58_LEN
    THEN Err("WrongSize")
    ELSE IF decode_32(as_bytes(s))[1] = "Err"
    THEN Err(parse_error(decode_32(as_bytes(s))[2]))
    ELSE Ok(decode_32(as_bytes(s))[2])

\* The strings parsed for a text t: t, t twice, halves, t with a "1" more
\* on either side, with "I" or a wider character in place of a character,
\* and t twice with "I" in front.
Variants(t) ==
    {t,
     t \o t,
     SubSeq(t, 1, Len(t) \div 2),
     SubSeq(t, 1, Len(t) \div 4),
     t \o Ascii(<<49>>),
     Ascii(<<49>>) \o t,
     Ascii(<<73>>) \o Tail(t),
     Ascii(<<73>>) \o Tail(t) \o t,
     SubSeq(t, 1, Len(t) - 1) \o <<<<226, 152, 137>>>>}

\* The strings that are parsed.
ParseStrings ==
    UNION {Variants(write_as_base58(a)) : a \in Addresses}
       \cup {Fill(n, ch) : n \in {0, 11, 12, 14, 15}, ch \in SeedChars}

\* AtomicU64::new(v) for a small v, as big-endian bytes.
AtomicU64_new(v) == Fill(U64_BYTES - 1, 0) \o <<v>>

\* An unsigned integer of big-endian bytes plus one, wrapping at its width.
RECURSIVE wrapping_inc(_)
wrapping_inc(bytes) ==
    IF bytes = <<>>
    THEN <<>>
    ELSE IF bytes[Len(bytes)] = U8Max
    THEN Append(wrapping_inc(SubSeq(bytes, 1, Len(bytes) - 1)), 0)
    ELSE [bytes EXCEPT ![Len(bytes)] = @ + 1]

\* `as T` with T = u32: the low bytes of the counter.
as_T(v) == SubSeq(v, Len(v) - COUNTER_BYTES + 1, Len(v))

\* The values hash.write_u32(i); i += 1 has written after n rounds.
RECURSIVE written(_, _)
written(i, n) ==
    IF n = 0 THEN <<>> ELSE <<i>> \o written(wrapping_inc(i), n - 1)

\* The chunks of COUNTER_BYTES bytes behind the counter.
Chunks == (PUBKEY_BYTES - COUNTER_BYTES) \div COUNTER_BYTES

\* hash.finish().to_ne_bytes()[0..COUNTER_BYTES] of the default hasher
\* after it was written to: bytes that are a function of what was written.
hasher_finish(values) == [hashed |-> values]

\* The address of counter value i: i big-endian, then a chunk of the hash
\* of what was written so far for each round.
unique_address(i) ==
    i \o [j \in 1..Chunks |-> hasher_finish(written(i, j))]

\* i += 1 overflows in one of the rounds.
overflows(i) ==
    \E j \in 1..Chunks : written(i, Chunks)[j] = Fill(COUNTER_BYTES, U8Max)

\* What new_unique returns for counter value i: the address; where i += 1
\* overflows, a build with overflow checks panics and one without wraps.
new_unique(i) ==
    IF overflows(i)
    THEN {Returned(unique_address(i)), Panic}
    ELSE {Returned(unique_address(i))}

\* a ^ b on unsigned integers, bit by bit.
RECURSIVE xor(_, _)
xor(a, b) ==
    IF a = 0 THEN b
    ELSE IF b = 0 THEN a
    ELSE ((a + b) % 2) + 2 * xor(a \div 2, b \div 2)

\* hash.chunks(2).for_each(..): each chunk is xored into accum, byte by byte
\* as far as the chunk goes.
RECURSIVE fold_chunks(_, _)
fold_chunks(hash, accum) ==
    IF hash = <<>>
    THEN accum
    ELSE IF Len(hash) = 1
    THEN <<xor(accum[1], hash[1]), accum[2]>>
    ELSE fold_chunks(SubSeq(hash, 3, Len(hash)),
                     <<xor(accum[1], hash[1]), xor(accum[2], hash[2])>>)

\* u16::saturating_add
u16_saturating_add(a, b) == IF a + b > U16Max THEN U16Max ELSE a + b

\* u16::wrapping_add
u16_wrapping_add(a, b) == (a + b) % (U16Max + 1)

\* Mutant: the one is added with wrap-around.
version_from_hash_wrapping(hash) ==
    u16_wrapping_add(fold_chunks(hash, <<0, 0>>)[1] * 256
                        + fold_chunks(hash, <<0, 0>>)[2], 1)

\* version_from_hash
version_from_hash(hash) ==
    u16_saturating_add(fold_chunks(hash, <<0, 0>>)[1] * 256
                          + fold_chunks(hash, <<0, 0>>)[2], 1)

\* u64::to_le_bytes of a number below 256.
to_le_bytes(v) == <<v>> \o Fill(U64_BYTES - 1, 0)

\* solana_sha256_hasher::hashv(&[hash, buf]): the digest, here the one the
\* environment gives for these values.
hashv(vals, digest) == digest

\* The loop of compute_shred_version: each hard fork is hashed into the
\* hash; digests are what hashv gives, in turn.
RECURSIVE hash_hard_forks(_, _, _)
hash_hard_forks(hash, hard_forks, digests) ==
    IF hard_forks = <<>>
    THEN hash
    ELSE hash_hard_forks(
            hashv(<<hash, to_le_bytes(Head(hard_forks)[1])
                             \o to_le_bytes(Head(hard_forks)[2])>>,
                  Head(digests)),
            Tail(hard_forks), Tail(digests))

\* compute_shred_version
compute_shred_version(genesis_hash, hard_forks, digests) ==
    IF hard_forks = None
    THEN version_from_hash(genesis_hash)
    ELSE version_from_hash(hash_hard_forks(genesis_hash, hard_forks[1], digests))

\* ----------------------------------------------------------------- actions

\* The operations that yield a message.
Constructors ==
    {"default", "literal", "new_with_compiled_instructions", "keys_literal",
     "new_with_blockhash"}

\* A message has been built and no operation applied to it yet. Every
\* operation takes &self and leaves the message as it is, so a behaviour
\* applies one operation to the message it has built.
Ready == call.op \in Constructors

\* An operation on the message returns.
Returns(op, args, result) ==
    /\ call' = [op |-> op, args |-> args]
    /\ ret' = result
    /\ UNCHANGED msg
    /\ UNCHANGED <<finder, unique>>

\* Message::default(): zero header, no keys, zero hash, no instructions.
Init ==
    /\ header = [num_required_signatures |-> 0,
                 num_readonly_signed_accounts |-> 0,
                 num_readonly_unsigned_accounts |-> 0]
    /\ account_keys = <<>>
    /\ recent_blockhash = 0
    /\ instructions = <<>>
    /\ call = [op |-> "default", args |-> <<>>]
    /\ ret = Returned("Message")
    /\ pc = "idle"
    /\ bump_seed = U8Max
    /\ attempts = 0
    /\ I = AtomicU64_new(1)
    /\ threads = [t \in Threads |-> [pc |-> "idle", i |-> <<>>]]
    /\ log = <<>>

\* A constructor returns the message made of its arguments.
Constructs(op, h, keys, blockhash, ixs) ==
    /\ header' = h
    /\ account_keys' = keys
    /\ recent_blockhash' = blockhash
    /\ instructions' = ixs
    /\ call' = [op |-> op, args |-> <<>>]
    /\ ret' = Returned("Message")
    /\ UNCHANGED <<finder, unique>>

\* Message { header, account_keys, recent_blockhash: Hash::default(),
\* instructions: vec![] }: the literal the role tests build, any header over
\* any key table. A behaviour follows one message from its construction on.
MessageLiteral ==
    /\ call.op = "default"
    /\ \E h \in MessageHeaders, keys \in SeqUpTo(Pubkeys, MaxKeys) :
          Constructs("literal", h, keys, 0, <<>>)

\* Message::new_with_compiled_instructions: stores its arguments unchecked.
NewWithCompiledInstructions ==
    /\ call.op = "default"
    /\ \E num_required_signatures \in U8Vals,
          num_readonly_signed_accounts \in U8Vals,
          num_readonly_unsigned_accounts \in U8Vals,
          keys \in SeqUpTo(Pubkeys, MaxKeys),
          blockhash \in Hashes,
          ixs \in SeqUpTo(CompiledInstructions, MaxIxs) :
          Constructs("new_with_compiled_instructions",
                     [num_required_signatures |-> num_required_signatures,
                      num_readonly_signed_accounts |-> num_readonly_signed_accounts,
                      num_readonly_unsigned_accounts |-> num_readonly_unsigned_accounts],
                     keys, blockhash, ixs)

Sanitize ==
    /\ Ready
    /\ Returns("sanitize", <<>>, Returned(sanitize))

IsInstructionAccount ==
    /\ Ready
    /\ \E i \in Indices :
          Returns("is_instruction_account", <<i>>,
                  Returned(is_instruction_account(i)))

IsKeyCalledAsProgram ==
    /\ Ready
    /\ \E i \in Indices :
          Returns("is_key_called_as_program", <<i>>,
                  Returned(is_key_called_as_program(i)))

DemoteProgramId ==
    /\ Ready
    /\ \E i \in Indices :
          Returns("demote_program_id", <<i>>, Returned(demote_program_id(i)))

IsWritableIndex ==
    /\ Ready
    /\ \E i \in Indices :
          Returns("is_writable_index", <<i>>, Returned(is_writable_index(i)))

IsMaybeWritable ==
    /\ Ready
    /\ \E i \in Indices, r \in ReservedOptions :
          Returns("is_maybe_writable", <<i, r>>, Returned(is_maybe_writable(i, r)))

IsSigner ==
    /\ Ready
    /\ \E i \in Indices : Returns("is_signer", <<i>>, Returned(is_signer(i)))

SignerKeys ==
    /\ Ready
    /\ Returns("signer_keys", <<>>, signer_keys)

\* Message { account_keys, ..Message::default() }: any key table under the
\* default header, hash and instructions.
KeysLiteral ==
    /\ call.op = "default"
    /\ \E keys \in SeqUpTo(Pubkeys, MaxTableKeys) :
          Constructs("keys_literal", header, keys, 0, <<>>)

HasDuplicates ==
    /\ Ready
    /\ Returns("has_duplicates", <<>>, Returned(has_duplicates))

\* Message::new_with_compiled_instructions(1, 0, 0, keys, Hash::default(), ixs)
\* with instructions that name a program and no accounts.
ProgramCalls ==
    /\ call.op = "default"
    /\ \E keys \in SeqUpTo(Pubkeys, MaxKeys),
          ixs \in SeqUpTo([program_id_index : U8Vals, accounts : {<<>>}],
                          MaxCalls) :
          Constructs("new_with_compiled_instructions",
                     [num_required_signatures |-> 1,
                      num_readonly_signed_accounts |-> 0,
                      num_readonly_unsigned_accounts |-> 0],
                     keys, 0, ixs)

ProgramPosition ==
    /\ Ready
    /\ \E index \in Indices :
          Returns("program_position", <<index>>, program_position(index))

MaybeExecutable ==
    /\ Ready
    /\ \E i \in Indices :
          Returns("maybe_executable", <<i>>, maybe_executable(i))

\* Message::new_with_blockhash(instructions, payer, blockhash): the key
\* compiler's components, when the counts fit, become the message; the
\* arguments are kept for reference.
NewWithBlockhash ==
    /\ call.op = "default"
    /\ \E ixs \in SeqUpTo(Instructions, MaxCalls), payer \in Payers :
          LET compiled == try_into_message_components(compile(ixs, payer))
          IN  /\ compiled # None
              /\ \E components \in compiled[1], blockhash \in Hashes :
                    \E built \in
                          {new_with_blockhash(ixs, components, blockhash)} :
                        /\ built # Panic
                        /\ header' = built[1].header
                        /\ account_keys' = built[1].account_keys
                        /\ recent_blockhash' = built[1].recent_blockhash
                        /\ instructions' = built[1].instructions
                        /\ call' = [op |-> "new_with_blockhash",
                                    args |-> <<ixs, payer, blockhash>>]
                        /\ ret' = Returned("Message")
                        /\ UNCHANGED <<finder, unique>>

CreateProgramAddress ==
    /\ call.op = "default"
    /\ \E seeds \in SeedLists, program_id \in ProgramIds :
          \E curve \in Curves(seeds, program_id) :
             Returns("create_program_address", <<seeds, program_id, curve>>,
                     Returned(create_program_address(curve, seeds,
                                                     program_id)))

\* Pubkey::try_find_program_address is entered: bump_seed = [u8::MAX] and the
\* loop is ahead.
TryFindProgramAddress ==
    /\ call.op = "default"
    /\ \E seeds \in SeedLists, program_id \in ProgramIds :
          \E curve \in Curves(seeds, program_id) :
             call' = [op |-> "try_find_program_address",
                      args |-> <<seeds, program_id, curve>>]
    /\ ret' = Running
    /\ pc' = "loop"
    /\ bump_seed' = U8Max
    /\ attempts' = 0
    /\ UNCHANGED <<msg, unique>>

\* Pubkey::find_program_address is entered: it runs the same search.
FindProgramAddress ==
    /\ call.op = "default"
    /\ \E seeds \in SeedLists, program_id \in ProgramIds :
          \E curve \in Curves(seeds, program_id) :
             call' = [op |-> "find_program_address",
                      args |-> <<seeds, program_id, curve>>]
    /\ ret' = Running
    /\ pc' = "loop"
    /\ bump_seed' = U8Max
    /\ attempts' = 0
    /\ UNCHANGED <<msg, unique>>

\* The search leaves its loop with result: try_find_program_address returns
\* it, find_program_address unwraps it or panics.
Leaves(result) ==
    /\ pc' = "done"
    /\ ret' = IF call.op = "try_find_program_address"
              THEN Returned(result)
              ELSE IF result = None THEN Panic ELSE Returned(result[1])

\* One iteration of for _ in 0..u8::MAX: the candidate with the bump seed
\* appended is derived; Ok returns it with the bump seed, InvalidSeeds
\* decrements the bump seed and goes on while iterations are left, any other
\* error breaks.
Attempt ==
    /\ pc = "loop"
    /\ attempts' = attempts + 1
    /\ \E address \in {create_program_address(
                           call.args[3],
                           seeds_with_bump(call.args[1], bump_seed),
                           call.args[2])} :
          IF address[1] = "Ok"
          THEN /\ Leaves(Some(<<address[2], bump_seed>>))
               /\ UNCHANGED bump_seed
          ELSE IF ~keeps_searching(address)
          THEN /\ Leaves(None)
               /\ UNCHANGED bump_seed
          ELSE \E left \in decremented(bump_seed) :
                  IF left = Panic
                  THEN /\ pc' = "done"
                       /\ ret' = Panic
                       /\ UNCHANGED bump_seed
                  ELSE /\ bump_seed' = left[1]
                       /\ IF attempts + 1 < U8Max
                          THEN UNCHANGED <<pc, ret>>
                          ELSE Leaves(None)
    /\ UNCHANGED <<msg, call, unique>>

CreateWithSeed ==
    /\ call.op = "default"
    /\ \E base \in ProgramIds, seed \in SeedStrings, owner \in Owners :
          Returns("create_with_seed", <<base, seed, owner>>,
                  Returned(create_with_seed(base, seed, owner)))

Display ==
    /\ call.op = "default"
    /\ \E p \in Addresses :
          Returns("to_string", <<p>>, Returned(write_as_base58(p)))

FromStr ==
    /\ call.op = "default"
    /\ \E s \in ParseStrings :
          Returns("from_str", <<s>>, Returned(from_str(s)))

\* Calls of new_unique begun so far.
begun == Cardinality({k \in 1..Len(log) : log[k].event = "call"})

\* A thread enters new_unique: I.fetch_add(1) as T, one atomic step.
FetchAdd(t) ==
    /\ threads[t].pc = "idle"
    /\ begun < MaxUniqueCalls
    /\ I' = wrapping_inc(I)
    /\ threads' = [threads EXCEPT ![t] = [pc |-> "fetched", i |-> as_T(I)]]
    /\ log' = Append(log, [event |-> "call", thread |-> t])
    /\ UNCHANGED <<msg, call, ret, finder>>

\* The thread fills the address from its counter value and returns it, or
\* panics.
NewUnique(t) ==
    /\ threads[t].pc = "fetched"
    /\ \E result \in new_unique(threads[t].i) :
          /\ threads' = [threads EXCEPT ![t] =
                            [pc |-> IF result = Panic THEN "panicked"
                                    ELSE "idle",
                             i |-> <<>>]]
          /\ log' = Append(log, [event |-> "return", thread |-> t,
                                 result |-> result])
    /\ UNCHANGED <<msg, call, ret, finder, I>>

\* Calls whose results are dropped: as many as it takes for the low
\* COUNTER_BYTES bytes of the counter to be all ones.
Discarded ==
    /\ as_T(I) # Fill(COUNTER_BYTES, U8Max)
    /\ I' = SubSeq(I, 1, U64_BYTES - COUNTER_BYTES) \o Fill(COUNTER_BYTES, U8Max)
    /\ UNCHANGED <<msg, call, ret, finder, threads, log>>

VersionFromHash ==
    /\ call.op = "default"
    /\ \E hash \in ShredHashes :
          Returns("version_from_hash", <<hash>>,
                  Returned(version_from_hash(hash)))

ComputeShredVersion ==
    /\ call.op = "default"
    /\ \E genesis_hash \in ShredHashes,
          hard_forks \in {None} \cup {Some(f) : f \in HardForks} :
          \E digests \in
                [1..(IF hard_forks = None THEN 0 ELSE Len(hard_forks[1]))
                    -> ShredDigests] :
             Returns("compute_shred_version",
                     <<genesis_hash, hard_forks, digests>>,
                     Returned(compute_shred_version(genesis_hash, hard_forks,
                                                    digests)))

\* The position roles of a message without instructions.
Next ==
    \/ MessageLiteral
    \/ IsWritableIndex
    \/ IsSigner
    \/ SignerKeys

Spec == Init /\ [][Next]_vars

\* Every operation on a message with compiled instructions.
NextIx ==
    \/ NewWithCompiledInstructions
    \/ Sanitize
    \/ IsInstructionAccount
    \/ IsKeyCalledAsProgram
    \/ DemoteProgramId
    \/ IsWritableIndex
    \/ IsMaybeWritable
    \/ IsSigner
    \/ SignerKeys

SpecIx == Init /\ [][NextIx]_vars

\* The queries that read the key table alone.
NextKeys ==
    \/ KeysLiteral
    \/ HasDuplicates

SpecKeys == Init /\ [][NextKeys]_vars

\* The queries about the programs a message invokes.
NextPrograms ==
    \/ ProgramCalls
    \/ ProgramPosition
    \/ MaybeExecutable

SpecPrograms == Init /\ [][NextPrograms]_vars

\* Messages built from instructions.
NextBuild ==
    \/ NewWithBlockhash
    \/ Sanitize

SpecBuild == Init /\ [][NextBuild]_vars

\* Program-derived addresses.
NextPda ==
    \/ CreateProgramAddress
    \/ TryFindProgramAddress
    \/ FindProgramAddress
    \/ Attempt

SpecPda == Init /\ [][NextPda]_vars

\* Addresses derived from a base, a seed string and an owner.
NextSeed ==
    \/ CreateWithSeed

SpecSeed == Init /\ [][NextSeed]_vars

\* Addresses as text: formatting and parsing.
NextText ==
    \/ Display
    \/ FromStr

SpecText == Init /\ [][NextText]_vars

\* Threads drawing unique addresses.
NextUnique ==
    \/ \E t \in Threads : FetchAdd(t)
    \/ \E t \in Threads : NewUnique(t)
    \/ Discarded

SpecUnique == Init /\ [][NextUnique]_vars

\* The search runs to its end: the loop is a computation of the calling
\* thread between entry and return, it does not wait for anything, so an
\* iteration that can be taken is taken.
SpecPdaFair == Init /\ [][NextPda]_vars /\ WF_vars(Attempt)

\* Shred versions.
NextShred ==
    \/ VersionFromHash
    \/ ComputeShredVersion

SpecShred == Init /\ [][NextShred]_vars

\* ------------------------------------------------------------------ claims

\* Shorthands used to state the claims.
Nrs == header.num_required_signatures

Nrsa == header.num_readonly_signed_accounts

Nrua == header.num_readonly_unsigned_accounts

NKeys == Len(account_keys)

\* max(0, a - b)
ClampedDiff(a, b) == IF a - b > 0 THEN a - b ELSE 0

\* The last operation was op.
Called(op) == call.op = op

\* The index it was given.
ArgIndex == call.args[1]

\* Some compiled instruction has program index i.
SomeProgramIndexIs(i) ==
    \E k \in 1..Len(instructions) : instructions[k].program_id_index = i

\* The two header rules of sanitize.
HeaderRulesHold == Nrs + Nrua <= NKeys /\ Nrsa < Nrs

\* The three per-instruction index rules of sanitize.
IndexRulesHold ==
    \A k \in 1..Len(instructions) :
       /\ instructions[k].program_id_index < NKeys
       /\ instructions[k].program_id_index # 0
       /\ \A j \in 1..Len(instructions[k].accounts) :
             instructions[k].accounts[j] < NKeys

\* C1: for any header, key table and index i, is_writable_index(i) is true
\* exactly when i < max(0, nrs - nrsa), or i >= nrs and
\* i < max(0, len(account_keys) - nrua); both differences clamp at zero.
C1_WritableIndexRanges ==
    Called("is_writable_index") =>
       ret = Returned(\/ ArgIndex < ClampedDiff(Nrs, Nrsa)
                      \/ /\ ArgIndex >= Nrs
                         /\ ArgIndex < ClampedDiff(NKeys, Nrua))

\* C1 witness: both differences are negative and clamp, and an index inside
\* the table is found not writable.
C1_Witness ==
    /\ Called("is_writable_index")
    /\ Nrsa > Nrs
    /\ Nrua > NKeys
    /\ ArgIndex < NKeys
    /\ ret = Returned(FALSE)

\* C2 as stated: whenever nrsa >= nrs, is_writable_index(0) is false whatever
\* the key table and nrua are.
C2_Original ==
    (Called("is_writable_index") /\ ArgIndex = 0 /\ Nrsa >= Nrs) =>
       ret = Returned(FALSE)

\* C2 amended: whenever nrsa >= nrs and nrs >= 1, is_writable_index(0) is
\* false whatever the key table and nrua are; with nrs = 0 index 0 is a
\* non-signer and is writable exactly when nrua < len(account_keys).
C2_IndexZeroNotWritable ==
    (Called("is_writable_index") /\ ArgIndex = 0 /\ Nrsa >= Nrs) =>
       /\ Nrs >= 1 => ret = Returned(FALSE)
       /\ Nrs = 0 => ret = Returned(Nrua < NKeys)

\* C2 witness: one signature required, two read-only signers, one key: index 0
\* is asked about and is not writable.
C2_Witness ==
    /\ Called("is_writable_index")
    /\ ArgIndex = 0
    /\ Nrs = 1
    /\ Nrsa = 2
    /\ NKeys = 1
    /\ ret = Returned(FALSE)

\* C3: when nrua > len(account_keys), is_writable_index(i) is false for every
\* non-signer index i >= nrs, and true for every signer index
\* i < nrs - nrsa.
C3_NoWritableNonSigner ==
    (Called("is_writable_index") /\ Nrua > NKeys) =>
       /\ ArgIndex >= Nrs => ret = Returned(FALSE)
       /\ ArgIndex < Nrs - Nrsa => ret = Returned(TRUE)

\* C3 witness: nrua exceeds the table, and a non-signer index inside the
\* table is found not writable.
C3_Witness ==
    /\ Called("is_writable_index")
    /\ Nrua > NKeys
    /\ ArgIndex >= Nrs
    /\ ArgIndex < NKeys
    /\ ret = Returned(FALSE)

\* C4: sanitize returns Err(IndexOutOfBounds) whenever nrs + nrua (not
\* wrapped at 8 bits) > len(account_keys) or nrsa >= nrs; in particular
\* whenever nrs = 0, whatever the instructions are.
C4_SanitizeHeaderRules ==
    Called("sanitize") =>
       /\ (Nrs + Nrua > NKeys \/ Nrsa >= Nrs) => ret = Returned("IndexOutOfBounds")
       /\ Nrs = 0 => ret = Returned("IndexOutOfBounds")

\* C4 witness: the sum exceeds 255 and would fit the table if it wrapped, the
\* second header rule and the index rules hold, and sanitize fails.
C4_Witness ==
    /\ Called("sanitize")
    /\ Nrs + Nrua > U8Max
    /\ (Nrs + Nrua) % (U8Max + 1) <= NKeys
    /\ Nrsa < Nrs
    /\ IndexRulesHold
    /\ instructions # <<>>
    /\ ret = Returned("IndexOutOfBounds")

\* C5: sanitize returns Err(IndexOutOfBounds) whenever some compiled
\* instruction has program_id_index >= len(account_keys), or
\* program_id_index = 0, or an account index >= len(account_keys).
C5_SanitizeIndexRules ==
    (Called("sanitize") /\ ~IndexRulesHold) => ret = Returned("IndexOutOfBounds")

\* C5 witness: the header rules hold, the only instruction has program index 0
\* and every index in range, and sanitize fails.
C5_Witness ==
    /\ Called("sanitize")
    /\ HeaderRulesHold
    /\ Len(instructions) = 1
    /\ instructions[1].program_id_index = 0
    /\ \A j \in 1..Len(instructions[1].accounts) :
          instructions[1].accounts[j] < NKeys
    /\ ret = Returned("IndexOutOfBounds")

\* C6: sanitize returns Ok(()) for every message that satisfies the two
\* header rules and the three per-instruction index rules; nothing else
\* (duplicate keys, an instruction listing its own program index, a program
\* index in the signer range, the blockhash) is looked at.
C6_SanitizeAcceptsTheRest ==
    (Called("sanitize") /\ HeaderRulesHold /\ IndexRulesHold) =>
       ret = Returned("Ok")

\* C6 witness: two equal keys, a non-default blockhash, and an instruction
\* whose program index is a signer and is listed among its own accounts:
\* sanitize accepts the message.
C6_Witness ==
    /\ Called("sanitize")
    /\ NKeys = 2
    /\ account_keys[1] = account_keys[2]
    /\ recent_blockhash # 0
    /\ Len(instructions) = 1
    /\ instructions[1].program_id_index < Nrs
    /\ instructions[1].accounts = <<instructions[1].program_id_index>>
    /\ ret = Returned("Ok")

\* C7: is_maybe_writable(i, reserved) is true exactly when
\* is_writable_index(i), and not (a reserved set is supplied, i is inside
\* the table and account_keys[i] is in the set), and not
\* demote_program_id(i).
C7_MaybeWritable ==
    Called("is_maybe_writable") =>
       LET i == call.args[1]
           reserved == call.args[2]
       IN  ret = Returned(/\ is_writable_index(i)
                          /\ ~(/\ reserved # None
                               /\ i < NKeys
                               /\ account_keys[i + 1] \in reserved[1])
                          /\ ~demote_program_id(i))

\* C7 witness: a writable index whose key is not in the supplied reserved set
\* is called as a program with no loader in the table: it is not writable.
C7_Witness ==
    /\ Called("is_maybe_writable")
    /\ is_writable_index(call.args[1])
    /\ call.args[2] # None
    /\ call.args[1] < NKeys
    /\ account_keys[call.args[1] + 1] \notin call.args[2][1]
    /\ demote_program_id(call.args[1])
    /\ ret = Returned(FALSE)

\* C8: demote_program_id(i) is true exactly when some instruction has
\* program_id_index = i and no entry of account_keys, invoked or not, is the
\* upgradeable-loader id.
C8_DemoteProgramId ==
    Called("demote_program_id") =>
       ret = Returned(/\ SomeProgramIndexIs(ArgIndex)
                      /\ \A k \in 1..NKeys :
                            account_keys[k] # bpf_loader_upgradeable_id)

\* C8 witness: index i is called as a program, the loader id sits in the
\* table at a position no instruction invokes, and i is not demoted.
C8_Witness ==
    /\ Called("demote_program_id")
    /\ SomeProgramIndexIs(ArgIndex)
    /\ \E k \in 1..NKeys :
          /\ account_keys[k] = bpf_loader_upgradeable_id
          /\ ~SomeProgramIndexIs(k - 1)
    /\ ret = Returned(FALSE)

\* The role queries of C9.
RoleQueries ==
    {"is_signer", "is_writable_index", "is_maybe_writable", "demote_program_id",
     "is_instruction_account", "is_key_called_as_program", "signer_keys"}

\* C9 as stated: every role query returns a value for every index and header,
\* and is_maybe_writable(i, _) is false for every i >= len(account_keys).
C9_Original ==
    /\ call.op \in RoleQueries => ret # Panic
    /\ (Called("is_maybe_writable") /\ ArgIndex >= NKeys) => ret = Returned(FALSE)

\* C9 amended: every role query returns a value for every index and header,
\* and is_maybe_writable(i, _) is false for every i >= len(account_keys)
\* that is also >= nrs - nrsa; an index past the table but below
\* nrs - nrsa is reported writable unless it is demoted.
C9_RoleQueriesTotal ==
    /\ call.op \in RoleQueries => ret # Panic
    /\ (Called("is_maybe_writable") /\ ArgIndex >= NKeys) =>
          ret = Returned(ArgIndex < Nrs - Nrsa /\ ~demote_program_id(ArgIndex))

\* C9 witness: is_maybe_writable is asked, with a reserved set, about an index
\* that fits no u8 and lies past a non-empty table of a message with
\* instructions; it returns false.
C9_Witness ==
    /\ Called("is_maybe_writable")
    /\ ArgIndex > U8Max
    /\ call.args[2] # None
    /\ NKeys > 0
    /\ Len(instructions) > 0
    /\ ret = Returned(FALSE)

\* C10: is_signer(i) is true exactly when i < nrs, and signer_keys() is the
\* prefix of account_keys of length min(nrs, len(account_keys)): the keys, in
\* table order, at the indices inside the table for which is_signer holds.
C10_Signers ==
    /\ Called("is_signer") => ret = Returned(ArgIndex < Nrs)
    /\ Called("signer_keys") =>
          /\ Len(ret) = 1
          /\ Len(ret[1]) = (IF Nrs < NKeys THEN Nrs ELSE NKeys)
          /\ \A k \in 1..Len(ret[1]) : ret[1][k] = account_keys[k]
          /\ \A i \in 0..(NKeys - 1) : is_signer(i) <=> i < Len(ret[1])

\* C10 witness: fewer signatures required than keys, and signer_keys returns
\* a proper, non-empty prefix.
C10_Witness ==
    /\ Called("signer_keys")
    /\ Nrs > 0
    /\ Nrs < NKeys
    /\ ret = Returned(SubSeq(account_keys, 1, Nrs))

\* C11: has_duplicates() is true exactly when two distinct positions i < j of
\* account_keys hold equal addresses, whichever pair it is, and false for
\* tables of length 0 or 1.
C11_HasDuplicates ==
    Called("has_duplicates") =>
       /\ ret = Returned(\E i \in 1..NKeys, j \in 1..NKeys :
                            i < j /\ account_keys[i] = account_keys[j])
       /\ NKeys <= 1 => ret = Returned(FALSE)

\* C11 witness: the first and the last key of a table of at least three keys
\* are the only equal pair, and has_duplicates returns true.
C11_Witness ==
    /\ Called("has_duplicates")
    /\ NKeys >= 3
    /\ account_keys[1] = account_keys[NKeys]
    /\ \A i \in 1..NKeys, j \in 1..NKeys :
          (i < j /\ account_keys[i] = account_keys[j]) => (i = 1 /\ j = NKeys)
    /\ ret = Returned(TRUE)

\* The instructions whose program address is the address at source index i.
InvokersOf(i) ==
    {k \in 1..Len(instructions) :
        account_keys[instructions[k].program_id_index + 1] = account_keys[i + 1]}

\* Every instruction names a program inside the key table.
ProgramIndicesInRange ==
    \A k \in 1..Len(instructions) : instructions[k].program_id_index < NKeys

\* The least element of a non-empty set of naturals.
Least(S) == CHOOSE k \in S : \A j \in S : k <= j

\* C12: for i < account_keys.len() and every program_id_index in range,
\* program_position(i) is the smallest instruction position whose program
\* address equals account_keys[i] (addresses are compared, not indices), None
\* when there is none, and maybe_executable(i) is true exactly when
\* program_position(i) is not None.
C12_ProgramPosition ==
    /\ (Called("program_position") /\ ArgIndex < NKeys
          /\ ProgramIndicesInRange) =>
          ret = Returned(IF InvokersOf(ArgIndex) = {}
                         THEN None
                         ELSE Some(Least(InvokersOf(ArgIndex)) - 1))
    /\ (Called("maybe_executable") /\ ArgIndex < NKeys
          /\ ProgramIndicesInRange) =>
          ret = Returned(InvokersOf(ArgIndex) # {})

\* C12 witness: two instructions invoke the address held at index i through a
\* different index of a table with a repeated key, and the first one is found.
C12_Witness ==
    /\ Called("program_position")
    /\ ArgIndex < NKeys
    /\ ProgramIndicesInRange
    /\ Len(instructions) = 2
    /\ InvokersOf(ArgIndex) = {1, 2}
    /\ \A k \in 1..2 : instructions[k].program_id_index # ArgIndex
    /\ ret = Returned(Some(0))

\* The instructions and the payer new_with_blockhash was given.
ArgInstructions == call.args[1]

ArgPayer == call.args[2]

\* Index c of the key table is the first place that holds address a.
FirstPositionOf(c, a) ==
    /\ c < NKeys
    /\ account_keys[c + 1] = a
    /\ \A i \in 0..(c - 1) : account_keys[i + 1] # a

InstructionSigners ==
    {a \in Pubkeys : NamedWith(ArgInstructions, a, "is_signer")}

\* C14: built with payer p, account_keys[0] is p, the table holds each
\* address at most once, and num_required_signatures is the number of
\* distinct addresses that are p or a signer of some instruction; built
\* without payer from instructions without signers, it is 0.
C14_PayerFirst ==
    Called("new_with_blockhash") =>
       /\ ArgPayer # None =>
             /\ NKeys >= 1
             /\ account_keys[1] = ArgPayer[1]
             /\ \A i \in 1..NKeys, j \in 1..NKeys :
                   account_keys[i] = account_keys[j] => i = j
             /\ Nrs = Cardinality({ArgPayer[1]} \cup InstructionSigners)
       /\ (ArgPayer = None /\ InstructionSigners = {}) => Nrs = 0

\* C14 witness: the payer is also a readonly signer of one instruction,
\* another address signs readonly in another instruction, and the header
\* counts two signers.
C14_Witness ==
    /\ Called("new_with_blockhash")
    /\ ArgPayer # None
    /\ ArgPayer[1] \in InstructionSigners
    /\ Cardinality(InstructionSigners) = 2
    /\ Len(ArgInstructions) = 2
    /\ \A k \in 1..2 : \A j \in 1..Len(ArgInstructions[k].accounts) :
          ~ArgInstructions[k].accounts[j].is_writable
    /\ Nrs = 2
    /\ Nrsa = 1
    /\ NKeys >= 3

\* The seeds, the program id and the curve a derivation was called with.
ArgSeeds == call.args[1]

ArgProgramId == call.args[2]

ArgCurve == call.args[3]

\* The bytes of all the seeds of a list, one after the other.
RECURSIVE Flatten(_)
Flatten(seeds) ==
    IF seeds = <<>> THEN <<>> ELSE Head(seeds) \o Flatten(Tail(seeds))

\* The SHA-256 digest of the seeds in order, the program id and the marker.
DerivationHash(seeds, program_id) ==
    [sha256 |-> Flatten(seeds) \o program_id \o PDA_MARKER]

\* C15: create_program_address returns Err(MaxSeedLengthExceeded) exactly when
\* more than 16 seeds are given or some seed is longer than 32 bytes; 16 seeds
\* and 32-byte seeds are accepted.
C15_SeedLimits ==
    Called("create_program_address") =>
       (ret = Returned(Err("MaxSeedLengthExceeded"))
          <=> \/ Len(ArgSeeds) > 16
              \/ \E i \in 1..Len(ArgSeeds) : Len(ArgSeeds[i]) > 32)

\* C15 witness: exactly 16 seeds, one of them of exactly 32 bytes, were given
\* and an address came back.
C15_Witness ==
    /\ Called("create_program_address")
    /\ Len(ArgSeeds) = 16
    /\ Len(ArgSeeds[1]) = 32
    /\ ret[1][1] = "Ok"

\* At most 16 seeds, each of at most 32 bytes.
WithinLimits(seeds) ==
    /\ Len(seeds) <= 16
    /\ \A i \in 1..Len(seeds) : Len(seeds[i]) <= 32

\* C16: for seeds within the limits, create_program_address returns
\* Err(InvalidSeeds) exactly when the hash of the seeds in order, the program
\* id and the 21-byte marker is a curve point, and otherwise Ok of that hash;
\* an address it returns is never on the curve.
C16_OffCurveOrInvalid ==
    (Called("create_program_address") /\ WithinLimits(ArgSeeds)) =>
       /\ Len(PDA_MARKER) = 21
       /\ ret = Returned(Err("InvalidSeeds"))
             <=> bytes_are_curve_point(ArgCurve,
                                       DerivationHash(ArgSeeds, ArgProgramId))
       /\ ~bytes_are_curve_point(ArgCurve,
                                 DerivationHash(ArgSeeds, ArgProgramId))
             => ret = Returned(Ok(DerivationHash(ArgSeeds, ArgProgramId)))
       /\ ret[1][1] = "Ok" => ~is_on_curve(ArgCurve, ret[1][2])

\* C16 witness: two non-empty seeds hashed to a point off the curve and the
\* hash came back as the address.
C16_Witness ==
    /\ Called("create_program_address")
    /\ Len(ArgSeeds) = 2
    /\ ArgSeeds[1] # <<>>
    /\ ArgSeeds[2] # <<>>
    /\ ret = Returned(Ok(DerivationHash(ArgSeeds, ArgProgramId)))

\* A search for a program address has ended.
Searched ==
    /\ pc = "done"
    /\ call.op \in {"try_find_program_address", "find_program_address"}

\* What a search returns for the result of its loop.
SearchReturns(result) ==
    IF Called("try_find_program_address")
    THEN Returned(result)
    ELSE IF result = None THEN Panic ELSE Returned(result[1])

\* The search returned an address and a bump seed.
Found == Searched /\ ret # SearchReturns(None)

\* The pair it returned.
FoundPair == IF Called("try_find_program_address") THEN ret[1][1] ELSE ret[1]

\* create_program_address of the caller's seeds followed by the seed [bump].
Candidate(bump) ==
    create_program_address(ArgCurve, ArgSeeds \o <<<<bump>>>>, ArgProgramId)

\* C17: when find_program_address or try_find_program_address returns
\* (addr, bump), create_program_address of the seeds followed by the one-byte
\* seed [bump] returns Ok(addr), and addr is not on the curve.
C17_FoundAddressDerives ==
    Found =>
       /\ Candidate(FoundPair[2]) = Ok(FoundPair[1])
       /\ ~is_on_curve(ArgCurve, FoundPair[1])

\* C17 witness: find_program_address, given a non-empty seed, returned the
\* address of bump seed 1.
C17_Witness ==
    /\ Called("find_program_address")
    /\ Found
    /\ Len(ArgSeeds) >= 1
    /\ ArgSeeds[1] # <<>>
    /\ FoundPair[2] = 1

\* One step of the search of try_find_program_address, by the outcome of the
\* candidate it derives.
C18_Step ==
    (pc = "loop" /\ Called("try_find_program_address")) =>
       /\ bump_seed = 255 - attempts
       /\ attempts' = attempts + 1
       /\ Candidate(bump_seed)[1] = "Ok" =>
             /\ pc' = "done"
             /\ ret' = Returned(Some(<<Candidate(bump_seed)[2], bump_seed>>))
       /\ Candidate(bump_seed) = Err("InvalidSeeds") =>
             /\ bump_seed' = bump_seed - 1
             /\ \/ pc' = "loop" /\ ret' = ret
                \/ pc' = "done" /\ attempts' = 255 /\ ret' = Returned(None)
       /\ (Candidate(bump_seed)[1] = "Err"
             /\ Candidate(bump_seed) # Err("InvalidSeeds")) =>
             /\ pc' = "done"
             /\ ret' = Returned(None)

\* What try_find_program_address returned is the highest bump seed that
\* derives: every higher one gave InvalidSeeds.
C18_Returned ==
    (Called("try_find_program_address") /\ Found) =>
       /\ Candidate(FoundPair[2]) = Ok(FoundPair[1])
       /\ FoundPair[2] = 255 - (attempts - 1)
       /\ \A higher \in (FoundPair[2] + 1)..255 :
             Candidate(higher) = Err("InvalidSeeds")

\* C18: try_find_program_address tries the bump seeds 255, 254, ... in this
\* order; InvalidSeeds moves it to the next lower one, the first candidate
\* that derives is returned with its bump seed (so every higher bump seed gave
\* InvalidSeeds), and any other error ends the search at once with None.
C18_BumpSearch == [](C18_Returned) /\ [][C18_Step]_vars

\* C18 witness: try_find_program_address returned bump seed 254 at its second
\* attempt.
C18_Witness ==
    /\ Called("try_find_program_address")
    /\ Found
    /\ FoundPair[2] = 254
    /\ attempts = 2

\* C19: with 16 or more caller seeds, or a seed longer than 32 bytes,
\* try_find_program_address returns None after one derivation attempt and
\* find_program_address panics; with at most 15 seeds within the length limit
\* the search is not cut short, while create_program_address takes 16 seeds.
C19_SearchSeedLimit ==
    /\ (Searched /\ (Len(ArgSeeds) >= 16
                       \/ \E i \in 1..Len(ArgSeeds) : Len(ArgSeeds[i]) > 32)) =>
          /\ attempts = 1
          /\ Called("try_find_program_address") => ret = Returned(None)
          /\ Called("find_program_address") => ret = Panic
    /\ (Searched /\ Len(ArgSeeds) <= 15 /\ WithinLimits(ArgSeeds)) =>
          (Found \/ attempts = 255)
    /\ (Called("create_program_address") /\ Len(ArgSeeds) = 16
          /\ WithinLimits(ArgSeeds)) =>
          ret # Returned(Err("MaxSeedLengthExceeded"))

\* C19 witness: try_find_program_address, given exactly 16 seeds within the
\* length limit, returned None after one attempt.
C19_Witness ==
    /\ Called("try_find_program_address")
    /\ Searched
    /\ Len(ArgSeeds) = 16
    /\ WithinLimits(ArgSeeds)
    /\ attempts = 1
    /\ ret = Returned(None)

\* C20: create_program_address depends on the concatenation of the seeds
\* only: for the same program id, every seed list within the limits with the
\* same concatenated bytes gives the same result.
C20_ConcatenationOnly ==
    (Called("create_program_address") /\ WithinLimits(ArgSeeds)) =>
       \A other \in SeedLists :
          (WithinLimits(other) /\ Flatten(other) = Flatten(ArgSeeds)) =>
             Returned(create_program_address(ArgCurve, other, ArgProgramId))
                = ret

\* C20 witness: the seeds "a", "b" gave the address of the single seed "ab".
C20_Witness ==
    /\ Called("create_program_address")
    /\ ArgSeeds = <<<<97>>, <<98>>>>
    /\ ret = Returned(Ok(DerivationHash(<<<<97, 98>>>>, ArgProgramId)))

\* The base, the seed string and the owner create_with_seed was called with.
ArgBase == call.args[1]

ArgSeed == call.args[2]

ArgOwner == call.args[3]

\* The number of bytes of a string.
RECURSIVE ByteCount(_)
ByteCount(s) == IF s = <<>> THEN 0 ELSE Len(Head(s)) + ByteCount(Tail(s))

\* The last Len(suffix) bytes of bytes are suffix.
EndsWith(bytes, suffix) ==
    /\ Len(bytes) >= Len(suffix)
    /\ \A k \in 1..Len(suffix) :
          bytes[Len(bytes) - Len(suffix) + k] = suffix[k]

\* C21: create_with_seed returns Err(MaxSeedLengthExceeded) when the seed has
\* more than 32 bytes (bytes, not characters; before the owner is looked at),
\* otherwise Err(IllegalOwner) when the last 21 bytes of the owner are the
\* marker, and otherwise Ok of the hash of base, seed and owner; an owner
\* ending in the last 20 bytes of the marker only is accepted.
C21_CreateWithSeed ==
    Called("create_with_seed") =>
       ret = Returned(
                IF ByteCount(ArgSeed) > 32
                THEN Err("MaxSeedLengthExceeded")
                ELSE IF Len(PDA_MARKER) = 21 /\ EndsWith(ArgOwner, PDA_MARKER)
                THEN Err("IllegalOwner")
                ELSE Ok([sha256 |-> ArgBase \o Flatten(ArgSeed) \o ArgOwner]))

\* C21 witness: a seed of 8 characters and 32 bytes with an owner ending in
\* the last 20 bytes of the marker gave an address.
C21_Witness ==
    /\ Called("create_with_seed")
    /\ Len(ArgSeed) = 8
    /\ ByteCount(ArgSeed) = 32
    /\ EndsWith(ArgOwner, MarkerTail)
    /\ ret[1][1] = "Ok"

\* The address that was formatted and the string that was parsed.
ArgAddress == call.args[1]

ArgText == call.args[1]

\* The text the last call returned.
Text == ret[1]

\* C22: formatting a 32-byte address as base58 text gives at most 44
\* characters, and parsing that text with from_str gives the address back.
C22_RoundTrip ==
    Called("to_string") =>
       /\ Len(ArgAddress) = 32
       /\ Len(Text) <= 44
       /\ \A k \in 1..Len(Text) : Len(Text[k]) = 1
       /\ from_str(Text) = Ok(ArgAddress)

\* C22 witness: an address with zero bytes in front was formatted, and one
\* whose text has 44 characters.
C22_Witness ==
    /\ Called("to_string")
    /\ \/ ArgAddress[1] = 0 /\ ArgAddress[32] # 0
       \/ Len(Text) = 44

\* A character of the string is not a character of the base58 alphabet.
HasForeignCharacter(s) ==
    \E k \in 1..Len(s) :
       \/ Len(s[k]) # 1
       \/ \A d \in 1..58 : Base58Alphabet[d] # s[k][1]

\* The number of bytes the base58 text s stands for.
DecodedSize(s) ==
    Len(base58_bytes([k \in 1..Len(s) |-> base58_digit(s[k][1])]))

\* What the parse errors are, for strings measured by length(s).
ParseErrorsBy(length) ==
    Called("from_str") =>
       /\ length > 44 => ret = Returned(Err("WrongSize"))
       /\ length <= 44 /\ HasForeignCharacter(ArgText)
             => ret = Returned(Err("Invalid"))
       /\ length <= 44 /\ ~HasForeignCharacter(ArgText)
             => IF DecodedSize(ArgText) # 32
                THEN ret = Returned(Err("WrongSize"))
                ELSE ret[1][1] = "Ok"

\* C23: from_str returns Err(WrongSize) for every string of more than 44
\* bytes of UTF-8, whatever its characters; for a string of at most 44 bytes
\* it returns Err(Invalid) when a character is outside the base58 alphabet
\* and Err(WrongSize) when valid base58 text does not stand for exactly 32
\* bytes.
C23_ParseErrors == ParseErrorsBy(ByteCount(ArgText))

\* C23 as stated, with the length counted in characters: a string of at most
\* 44 characters with a character outside the alphabet gives Err(Invalid).
C23_Original == ParseErrorsBy(Len(ArgText))

\* C23 witness: a string of at most 44 characters and more than 44 bytes,
\* holding characters outside the alphabet, was parsed and gave WrongSize.
C23_Witness ==
    /\ Called("from_str")
    /\ Len(ArgText) <= 44
    /\ ByteCount(ArgText) > 44
    /\ HasForeignCharacter(ArgText)
    /\ ret = Returned(Err("WrongSize"))

\* The places of the log where a call returned an address.
ReturnPlaces == {k \in 1..Len(log) : log[k].event = "return" /\ log[k].result # Panic}

\* The address returned at place k of the log.
AddressAt(k) == log[k].result[1]

\* The call that returned at place r had not begun at place p: its thread's
\* last call before r is behind p.
BegunAfter(p, r) ==
    \E q \in (p + 1)..(r - 1) :
       /\ log[q].event = "call"
       /\ log[q].thread = log[r].thread
       /\ \A m \in (q + 1)..(r - 1) : log[m].thread # log[r].thread

\* Byte-wise order of addresses: at the first byte that differs. Addresses
\* with the same counter bytes are the same address.
Less(a, b) ==
    \E p \in 1..COUNTER_BYTES :
       /\ a[p] < b[p]
       /\ \A q \in 1..(p - 1) : a[q] = b[q]

\* C24: no two calls of new_unique, by any threads in any interleaving,
\* return the same address.
C24_Distinct ==
    \A p \in ReturnPlaces, q \in ReturnPlaces : p # q => AddressAt(p) # AddressAt(q)

\* C25: every call of new_unique returns an address strictly greater,
\* byte-wise, than the address returned by every call that returned before
\* it began.
C25_Increasing ==
    \A p \in ReturnPlaces, r \in ReturnPlaces :
       BegunAfter(p, r) => Less(AddressAt(p), AddressAt(r))

\* The indices of the writable signers and of the read-only non-signers.
WritableSignerRange == 0..(Nrs - Nrsa - 1)

ReadonlyUnsignedRange == (NKeys - Nrua)..(NKeys - 1)

\* C26: on every message sanitize returns Ok for, index 0 is a signer, is
\* writable by position, is writable when no reserved set is given and is
\* not called as a program; the range of the writable signers, which holds
\* index 0, and the range of the read-only non-signers at the end of the
\* table are disjoint and inside the table.
C26_PayerSlot ==
    Called("sanitize") /\ ret = Returned("Ok") =>
       /\ is_signer(0)
       /\ is_writable_index(0)
       /\ is_maybe_writable(0, None)
       /\ ~is_key_called_as_program(0)
       /\ 0 \in WritableSignerRange
       /\ WritableSignerRange \cap ReadonlyUnsignedRange = {}
       /\ WritableSignerRange \cup ReadonlyUnsignedRange \subseteq 0..(NKeys - 1)
       /\ Cardinality(ReadonlyUnsignedRange) = Nrua

\* C26 witness: sanitize returned Ok for a message with an instruction, a
\* read-only signer or a read-only non-signer.
C26_Witness ==
    /\ Called("sanitize")
    /\ ret = Returned("Ok")
    /\ Len(instructions) = 1
    /\ Nrsa + Nrua >= 1

\* The message was built from instructions and a payer that is the program
\* of none of them.
BuiltWithPayer ==
    /\ Called("new_with_blockhash")
    /\ ArgPayer # None
    /\ \A k \in 1..Len(ArgInstructions) :
          ArgInstructions[k].program_id # ArgPayer[1]

\* sanitize is applied to the message just built, and what it must return.
C27_Step ==
    BuiltWithPayer /\ call'.op = "sanitize" => ret' = Returned("Ok")

Searching == Called("try_find_program_address") /\ pc = "loop"

Finished == Called("try_find_program_address") /\ pc = "done"

\* Every candidate with a bump seed from 255 down to 1 is on the curve.
AllOnCurve == \A bump \in 1..255 : Candidate(bump) = Err("InvalidSeeds")

\* The search has made at most 255 attempts, the bump seed it is about to
\* try is 255 less the attempts made and at least 1, it does not panic, and
\* with every candidate on the curve it returns None after 255 attempts with
\* the bump seed at 0.
C28_Bounded ==
    Called("try_find_program_address") =>
       /\ attempts <= 255
       /\ bump_seed \in 0..255
       /\ ret # Panic
       /\ pc = "loop" => bump_seed = 255 - attempts /\ bump_seed >= 1
       /\ (pc = "done" /\ AllOnCurve) =>
             /\ ret = Returned(None)
             /\ attempts = 255
             /\ bump_seed = 0

\* A step of the search derives the candidate of a bump seed from 255 down
\* to 1 and leaves the bump seed or takes one off it.
C28_Step ==
    Searching =>
       /\ bump_seed \in 1..255
       /\ attempts' = attempts + 1
       /\ bump_seed' \in {bump_seed, bump_seed - 1}

\* C28: try_find_program_address returns, after at most 255 attempts; it
\* tries the bump seeds from 255 down to 1 and never 0, the bump seed never
\* goes below 0, and None is returned when every candidate from 255 down to
\* 1 is on the curve.
C28_Terminates ==
    /\ [](C28_Bounded)
    /\ [][C28_Step]_vars
    /\ Searching ~> Finished

\* C28 witness: every candidate was on the curve and the search returned
\* None after 255 attempts, the bump seed at 0.
C28_Witness ==
    /\ Finished
    /\ AllOnCurve
    /\ attempts = 255
    /\ bump_seed = 0
    /\ ret = Returned(None)

\* No address is held at two places of the key table.
NoDuplicateKeys ==
    \A i \in 1..NKeys, j \in 1..NKeys :
       account_keys[i] = account_keys[j] => i = j

\* C29: on a message whose key table holds no address twice and whose
\* instructions all name a program inside the table, maybe_executable(i)
\* returns what is_key_called_as_program(i) returns, for every i inside the
\* table; so the two differ on such instructions only when the table holds
\* an address twice.
C29_QueriesAgree ==
    (Called("maybe_executable") /\ ProgramIndicesInRange /\ ArgIndex < NKeys) =>
       /\ ret # Panic
       /\ NoDuplicateKeys => ret = Returned(is_key_called_as_program(ArgIndex))
       /\ ret # Returned(is_key_called_as_program(ArgIndex))
             => /\ ~NoDuplicateKeys
                /\ ret = Returned(TRUE)

\* C29 witness: on a table of two different keys with two instructions,
\* maybe_executable(1) returned true as is_key_called_as_program(1) does.
C29_Witness ==
    /\ Called("maybe_executable")
    /\ ProgramIndicesInRange
    /\ NKeys = 2
    /\ NoDuplicateKeys
    /\ Len(instructions) = 2
    /\ ArgIndex = 1
    /\ is_key_called_as_program(1)
    /\ ret = Returned(TRUE)

\* The hash a shred version was computed from, and the hard forks given.
ArgHash == call.args[1]

ArgHardForks == call.args[2]

\* Bit k of the xor of the bytes of hash at the places of the same parity
\* as first.
XorBit(hash, first, k) ==
    Cardinality({j \in 1..Len(hash) :
                    /\ j % 2 = first % 2
                    /\ (hash[j] \div (2 ^ k)) % 2 = 1}) % 2

\* The xor of the bytes of hash at the places of the same parity as first.
XorOf(hash, first) ==
    XorBit(hash, first, 0) + 2 * XorBit(hash, first, 1)
       + 4 * XorBit(hash, first, 2) + 8 * XorBit(hash, first, 3)
       + 16 * XorBit(hash, first, 4) + 32 * XorBit(hash, first, 5)
       + 64 * XorBit(hash, first, 6) + 128 * XorBit(hash, first, 7)

\* The 16-bit fold of a hash: the xor of the first bytes of its pairs in the
\* high byte, that of the second bytes in the low byte.
Folded(hash) == 256 * XorOf(hash, 1) + XorOf(hash, 2)

\* The fold plus one, held at 65535.
VersionOf(hash) == IF Folded(hash) + 1 > 65535 THEN 65535 ELSE Folded(hash) + 1

\* C30: version_from_hash returns the xor fold of the 16 byte pairs of the
\* hash plus 1, held at 65535: never 0, and 1 for the all-zero hash;
\* compute_shred_version without hard forks, None or an empty list, returns
\* version_from_hash of the genesis hash.
C30_ShredVersion ==
    /\ Called("version_from_hash") =>
          /\ Len(ArgHash) = 32
          /\ ret = Returned(VersionOf(ArgHash))
          /\ ret # Returned(0)
          /\ (\A j \in 1..32 : ArgHash[j] = 0) => ret = Returned(1)
    /\ Called("compute_shred_version") =>
          /\ ret # Returned(0)
          /\ (ArgHardForks = None \/ ArgHardForks = Some(<<>>))
                => ret = Returned(VersionOf(ArgHash))

\* C30 witness: version_from_hash of a hash that folds to 65535 returned
\* 65535.
C30_Witness ==
    /\ Called("version_from_hash")
    /\ Folded(ArgHash) = 65535
    /\ ret = Returned(65535)

====
